---- MODULE Spec2Model ----
(***************************************************************************)
(* AudioJournal: the recording / playback sessions and the note store of   *)
(* the records screens (src/src/screens/RecordsScreen.tsx and its earlier  *)
(* variants) and of the note modal (src/src/screens/VoiceNoteModal.tsx).   *)
(*                                                                         *)
(* Every async handler is a task: one step per await point.  A task keeps  *)
(* the values its closure captured when the handler was invoked (React     *)
(* state is read from the render that created the handler), so a           *)
(* continuation that runs after an await works on the captured values and  *)
(* not on the current state.                                               *)
(***************************************************************************)
EXTENDS Integers, Sequences, FiniteSets, TLC

\* ------------------------------------------------------------------ bounds
\* Number of commands (handler invocations that suspend at an await) the
\* user issues in one run; as many invocations can be suspended at once.
\* The pause / resume toggles of the records screens are not counted.
MaxOps == 2
\* The ceiling of the recording timer in ticks.  The source sets 600
\* (RecordsScreen.tsx:46); the model scales it down, every guard and every
\* claim compares against this name only.
MAX_RECORDING_DURATION == 1
\* Texts the user can type into a title input.
Texts == {"", "a"}
\* Length of a media file in status updates of its playback.
SoundLen == 2
\* progressUpdateIntervalMillis of createAsync
progressUpdateIntervalMillis == 100
\* status.durationMillis of a media file
DurationMillis == SoundLen * progressUpdateIntervalMillis
\* Values of a seek in tenths: the slider (0 .. 1) and the two skip
\* buttons, handleSeek(-0.1) and handleSeek(0.1).
SeekValues == {-1, 0, 1, 5, 10}
\* Values of the volume slider in tenths.
Volumes == {5, 10}
\* Titles the user can type into the save-recording modal of part_005.
Titles == {"", " ", "a"}
\* Ticks the model follows a timer that has no ceiling of its own.
TickBound == MAX_RECORDING_DURATION + 1

TaskIds == 1..MaxOps
\* Number of commands in one run of part_005.
MaxOps5 == MaxOps + 1

VARIABLES
  screen,             \* which records screen is mounted
  voiceNotes,         \* useState<VoiceNote[]>
  selectedNote,       \* useState<VoiceNote | null>: <<>> or <<note>>
  modalVisible,       \* edit modal
  actionModalVisible, \* action modal
  loading,            \* notes are being loaded
  recording,          \* useState<Audio.Recording | null>: 0 is null
  recordingState,     \* [isRecording, duration, isPaused]
  interval,           \* the interval of the timer effect and its closure
  tasks,              \* suspended handler invocations
  storage,            \* AsyncStorage item "voiceNotes"
  storageQ,           \* AsyncStorage requests in flight, in issue order
  files,              \* media files that exist (by uri)
  capture,            \* Audio.Recording objects prepared on the device
  nextRec,            \* Audio.Recording objects created so far
  now,                \* last reading of Date.now()
  currentSound,       \* useState<Audio.Sound | null>: 0 is null
  playbackState,      \* [isPlaying, currentNoteId, progress]
  sounds,             \* Audio.Sound objects created so far, by handle
  modalState,         \* part_005: [recording, note], the two modals
  newTitle,           \* part_005: title input of the save-recording modal
  loadingRecording,   \* part_005: loading.recording
  modal,              \* VoiceNoteModal: the state of the component
  timer,              \* part_004: useState(0), seconds shown while recording
  ops                 \* commands issued so far

vars == <<screen, voiceNotes, selectedNote, modalVisible, actionModalVisible,
          loading, recording, recordingState, interval, tasks, storage, storageQ,
          files, capture, nextRec, now, currentSound, playbackState, sounds,
          modalState, newTitle, loadingRecording, modal, timer, ops>>

\* ------------------------------------------------------------- data model
Note(id, text, uri, duration) ==
  [id |-> id, text |-> text, uri |-> uri, duration |-> duration]

\* What the handlers read of selectedNote: its id and its (edited) text.
Selected(note) == [id |-> note.id, text |-> note.text]

Ids(notes) == {notes[i].id : i \in 1..Len(notes)}

IdleRecording == [isRecording |-> FALSE, duration |-> 0, isPaused |-> FALSE]

\* currentNoteId: -1 is null (note ids are readings of the clock)
IdlePlayback == [isPlaying |-> FALSE, currentNoteId |-> -1, progress |-> 0]

NoInterval == [on |-> FALSE, rec |-> 0, notes |-> <<>>, dur |-> 0]

NoTask ==
  [kind |-> "idle", pc |-> "", rec |-> 0, notes |-> <<>>, dur |-> 0,
   id |-> 0, uri |-> 0, auto |-> FALSE, sound |-> 0, target |-> 0]

FreeTasks == {t \in TaskIds : tasks[t].kind = "idle"}

NewTask == CHOOSE t \in FreeTasks : \A u \in FreeTasks : t <= u

\* `Note ${voiceNotes.length + 1}`
DefaultText(n) ==
  CASE n = 1 -> "Note 1"
    [] n = 2 -> "Note 2"
    [] n = 3 -> "Note 3"
    [] OTHER -> "Note n"

\* voiceNotes.filter((note) => note.id !== noteId)
RECURSIVE FilterOut(_, _)
FilterOut(notes, id) ==
  IF notes = <<>> THEN <<>>
  ELSE IF Head(notes).id = id THEN FilterOut(Tail(notes), id)
       ELSE <<Head(notes)>> \o FilterOut(Tail(notes), id)

\* voiceNotes.map((note) => note.id === id ? { ...note, text } : note)
Rename(notes, id, text) ==
  [i \in 1..Len(notes) |->
     IF notes[i].id = id THEN [notes[i] EXCEPT !.text = text] ELSE notes[i]]

\* voiceNotes.find((note) => note.id === noteId): <<>> or <<note>>
RECURSIVE Find(_, _)
Find(notes, id) ==
  IF notes = <<>> THEN <<>>
  ELSE IF Head(notes).id = id THEN <<Head(notes)>>
       ELSE Find(Tail(notes), id)

\* The timer effect runs when isRecording or isPaused changed; the interval
\* it installs calls the handleStopRecording of that render.
TimerEffect(old, new, rec, notes) ==
  IF old.isRecording = new.isRecording /\ old.isPaused = new.isPaused
    THEN interval
    ELSE IF new.isRecording /\ ~new.isPaused
           THEN [on |-> TRUE, rec |-> rec, notes |-> notes, dur |-> new.duration]
           ELSE NoInterval

\* AsyncStorage.setItem(STORAGE_KEY, JSON.stringify(notes)) is issued
\* Every request carries a history flag, current: the collection it writes
\* is still the in-memory collection (no setVoiceNotes happened since).
Superseded(q) == [i \in 1..Len(q) |-> [q[i] EXCEPT !.current = FALSE]]

SetItem(notes, t) ==
  Append(Superseded(storageQ),
         [op |-> "set", notes |-> notes, task |-> t, current |-> TRUE])

\* the oldest request completes; a failed write leaves the item as it was
\* (rejected: the last setItem was rejected, what saveNotes' catch sees)
Written(ok) ==
  IF ok THEN [present |-> TRUE, notes |-> Head(storageQ).notes, rejected |-> FALSE]
        ELSE [storage EXCEPT !.rejected = TRUE]

\* one more command of the run
Command == ops < MaxOps /\ ops' = ops + 1

NoModal == ~modalVisible /\ ~actionModalVisible

uiVars == <<selectedNote, modalVisible, actionModalVisible>>
recVars == <<recording, recordingState, interval>>
devVars == <<capture, nextRec>>
storeVars == <<storage, storageQ>>
playVars == <<currentSound, playbackState, sounds>>
p5Vars == <<modalState, newTitle, loadingRecording>>

\* VoiceNoteModal before it is shown; effectSound is the sound of the
\* render in which the load effect last ran (what its cleanup unloads)
ModalClosed ==
  [visible |-> FALSE, sound |-> 0, isPlaying |-> FALSE, playbackPosition |-> 0,
   volume |-> 10, duration |-> 0, isLoading |-> FALSE, effectSound |-> 0]

\* ------------------------------------------------------------------- Init
\* Notes left in storage by earlier runs of the app (newest first), with
\* their media files.
OldNotes == <<Note(1, "Note 2", 0, 1), Note(0, "Note 1", -1, 1)>>

InitCommon ==
  /\ voiceNotes = <<>>
  /\ selectedNote = <<>>
  /\ modalVisible = FALSE
  /\ actionModalVisible = FALSE
  /\ loading = TRUE
  /\ recording = 0
  /\ recordingState = IdleRecording
  /\ interval = NoInterval
  /\ tasks = [t \in TaskIds |-> NoTask]
  /\ \E old \in {SubSeq(OldNotes, 1, n) : n \in 0..Len(OldNotes)} :
       /\ storage = [present |-> old # <<>>, notes |-> old, rejected |-> FALSE]
       /\ files = {old[i].uri : i \in 1..Len(old)}
  /\ storageQ = <<[op |-> "get", notes |-> <<>>, task |-> 0, current |-> FALSE]>>
  /\ capture = {}
  /\ nextRec = 0
  /\ now = 2
  /\ currentSound = 0
  /\ playbackState = IdlePlayback
  /\ sounds = <<>>
  /\ modalState = [recording |-> FALSE, note |-> FALSE]
  /\ newTitle = ""
  /\ loadingRecording = FALSE
  /\ modal = ModalClosed
  /\ timer = 0
  /\ ops = 0

InitRecords == screen = "Records" /\ InitCommon

\* ------------------------------------------------------------- loadNotes
LoadNotes ==
  /\ storageQ # <<>> /\ Head(storageQ).op = "get"
  /\ \E ok \in BOOLEAN :
       /\ voiceNotes' = IF ok /\ storage.present THEN storage.notes ELSE voiceNotes
       /\ storageQ' = IF ok /\ storage.present THEN Superseded(Tail(storageQ))
                                               ELSE Tail(storageQ)
  /\ loading' = FALSE
  /\ UNCHANGED <<screen, timer, modal, p5Vars, playVars, uiVars, recVars,
                 tasks, storage, files, devVars, now, ops>>

\* ------------------------------------------------- handleStartRecording
\* The record button shows the microphone while isRecording is false.
\* The handler is created in a render that holds currentSound (kept in the
\* task, the handler never reads it).
StartRecording ==
  /\ screen = "Records"
  /\ ~recordingState.isRecording /\ NoModal
  /\ FreeTasks # {}
  /\ Command
  /\ tasks' = [tasks EXCEPT ![NewTask] =
                 [NoTask EXCEPT !.kind = "start", !.pc = "perm",
                                !.sound = currentSound]]
  /\ UNCHANGED <<screen, timer, modal, p5Vars, playVars, voiceNotes, uiVars,
                 loading, recVars, storeVars, files, devVars, now>>

\* handleStartRecording with new Audio.Recording() moved above the check of
\* the status: a Recording is allocated whatever the status is.
StartPermissionAllocatesFirst(t) ==
  /\ tasks[t].kind = "start" /\ tasks[t].pc = "perm"
  /\ nextRec' = nextRec + 1
  /\ \E status \in {"granted", "denied"} :
       IF status = "granted"
         THEN tasks' = [tasks EXCEPT ![t].pc = "begin", ![t].rec = nextRec + 1]
         ELSE tasks' = [tasks EXCEPT ![t] = NoTask]
  /\ UNCHANGED <<screen, timer, modal, p5Vars, playVars, voiceNotes, uiVars,
                 loading, recVars, storeVars, files, capture, now, ops>>

\* await Audio.requestPermissionsAsync(): a status other than granted and
\* a rejection both end the handler with an alert.
StartPermission(t) ==
  /\ tasks[t].kind = "start" /\ tasks[t].pc = "perm"
  /\ \E status \in {"granted", "denied"} :
       IF status = "granted"
         THEN /\ nextRec' = nextRec + 1
              /\ tasks' = [tasks EXCEPT ![t].pc = "begin", ![t].rec = nextRec + 1]
         ELSE /\ nextRec' = nextRec
              /\ tasks' = [tasks EXCEPT ![t] = NoTask]
  /\ UNCHANGED <<screen, timer, modal, p5Vars, playVars, voiceNotes, uiVars,
                 loading, recVars, storeVars, files, capture, now, ops>>

\* await newRecording.prepareToRecordAsync(...); await newRecording
\* .startAsync(); setRecording; setRecordingState.  The device prepares one
\* Recording at a time; either call may fail, and a Recording whose start
\* failed stays prepared.  Nothing of the app changes between the two
\* awaits, so they are one step.
StartBegin(t) ==
  /\ tasks[t].kind = "start" /\ tasks[t].pc = "begin"
  /\ \E outcome \in {"ok", "noprepare", "nostart"} :
       /\ outcome \in {"ok", "nostart"} => capture = {}
       /\ capture' = IF outcome = "noprepare" THEN capture ELSE {tasks[t].rec}
       /\ IF outcome = "ok"
            THEN LET new == [isRecording |-> TRUE, duration |-> 0, isPaused |-> FALSE]
                 IN /\ recording' = tasks[t].rec
                    /\ recordingState' = new
                    /\ interval' = TimerEffect(recordingState, new, tasks[t].rec,
                                            voiceNotes)
            ELSE UNCHANGED recVars
  /\ tasks' = [tasks EXCEPT ![t] = NoTask]
  /\ UNCHANGED <<screen, timer, modal, p5Vars, playVars, voiceNotes, uiVars,
                 loading, storeVars, files, nextRec, now, ops>>

\* -------------------------------------------------- handleStopRecording
\* const handleStopRecording = async () => { if (!recording) return; ...
\* called with the recording, voiceNotes and duration of one render
StopTask(rec, notes, dur, auto) ==
  [NoTask EXCEPT !.kind = "stop", !.pc = "stopping", !.rec = rec,
                 !.notes = notes, !.dur = dur, !.auto = auto]

\* The record button shows stop while isRecording is true.
StopRecording ==
  /\ screen = "Records"
  /\ recordingState.isRecording /\ NoModal
  /\ recording # 0
  /\ FreeTasks # {}
  /\ Command
  /\ tasks' = [tasks EXCEPT ![NewTask] =
                 StopTask(recording, voiceNotes, recordingState.duration, FALSE)]
  /\ UNCHANGED <<screen, timer, modal, p5Vars, playVars, voiceNotes, uiVars,
                 loading, recVars, storeVars, files, devVars, now>>

\* The interval of the timer effect: at the ceiling it calls the
\* handleStopRecording its closure holds and leaves the state as it is.
TimerTick ==
  /\ screen = "Records"
  /\ interval.on
  /\ IF recordingState.duration >= MAX_RECORDING_DURATION
       THEN /\ interval.rec # 0
            /\ FreeTasks # {}
            /\ tasks' = [tasks EXCEPT ![NewTask] =
                           StopTask(interval.rec, interval.notes, interval.dur, TRUE)]
            /\ UNCHANGED recordingState
       ELSE /\ recordingState' =
                 [recordingState EXCEPT !.duration = recordingState.duration + 1]
            /\ UNCHANGED tasks
  /\ UNCHANGED <<screen, timer, modal, p5Vars, playVars, voiceNotes, uiVars,
                 loading, recording, interval, storeVars, files, devVars, now,
                 ops>>

\* the finally of handleStopRecording with a timer effect that returns no
\* cleanup: the interval of the session goes on
StopFinallyKeepsInterval ==
  /\ recording' = 0
  /\ recordingState' = IdleRecording
  /\ interval' = interval

\* finally { setRecording(null); setRecordingState({false, 0, false}) }
StopFinally ==
  /\ recording' = 0
  /\ recordingState' = IdleRecording
  /\ interval' = TimerEffect(recordingState, IdleRecording, 0, voiceNotes')

\* Date.now(): a reading of the wall clock in milliseconds, which is not
\* monotonic: the last reading again, or a later one (now is the last
\* reading taken)
DateNow == {now, now + 1}

\* [newNote, ...voiceNotes] of the render the handler was created in
Prepend(note, notes) == <<note>> \o notes

\* handleStopRecording without `if (!uri) throw`: a note is built from
\* the null URI as well.
StopUnloadKeepsNullUri(t) ==
  /\ tasks[t].kind = "stop" /\ tasks[t].pc = "stopping"
  /\ \E outcome \in {"ok", "nouri", "reject"} :
       /\ outcome \in {"ok", "nouri"} => tasks[t].rec \in capture
       /\ capture' = IF outcome = "reject" THEN capture
                                           ELSE capture \ {tasks[t].rec}
       /\ IF outcome \in {"ok", "nouri"}
            THEN \E reading \in DateNow :
                   LET newNote == Note(reading,
                                       DefaultText(Len(tasks[t].notes) + 1),
                                       tasks[t].rec, tasks[t].dur)
                       updatedNotes == Prepend(newNote, tasks[t].notes)
                   IN /\ now' = reading
                      /\ files' = IF outcome = "ok"
                                    THEN files \cup {tasks[t].rec} ELSE files
                      /\ voiceNotes' = updatedNotes
                      /\ storageQ' = SetItem(updatedNotes, t)
                      /\ tasks' = [tasks EXCEPT ![t].pc = "saving",
                                                ![t].notes = <<>>]
                      /\ UNCHANGED recVars
            ELSE /\ tasks' = [tasks EXCEPT ![t] = NoTask]
                 /\ StopFinally
                 /\ UNCHANGED <<voiceNotes, storageQ, files, now>>
  /\ UNCHANGED <<screen, timer, modal, p5Vars, playVars, uiVars, loading,
                 storage, nextRec, ops>>

\* await recording.stopAndUnloadAsync(); getURI(); the note is built, put
\* in front of the captured collection, set and handed to saveNotes.
StopUnload(t) ==
  /\ tasks[t].kind = "stop" /\ tasks[t].pc = "stopping"
  /\ \E outcome \in {"ok", "nouri", "reject"} :
       /\ outcome \in {"ok", "nouri"} => tasks[t].rec \in capture
       /\ capture' = IF outcome = "reject" THEN capture
                                           ELSE capture \ {tasks[t].rec}
       /\ IF outcome = "ok"
            THEN \E reading \in DateNow :
                   LET newNote == Note(reading,
                                       DefaultText(Len(tasks[t].notes) + 1),
                                       tasks[t].rec, tasks[t].dur)
                       updatedNotes == Prepend(newNote, tasks[t].notes)
                   IN /\ now' = reading
                      /\ files' = files \cup {tasks[t].rec}
                      /\ voiceNotes' = updatedNotes
                      /\ storageQ' = SetItem(updatedNotes, t)
                      /\ tasks' = [tasks EXCEPT ![t].pc = "saving",
                                                ![t].notes = <<>>]
                      /\ UNCHANGED recVars
            ELSE /\ tasks' = [tasks EXCEPT ![t] = NoTask]
                 /\ StopFinally
                 /\ UNCHANGED <<voiceNotes, storageQ, files, now>>
  /\ UNCHANGED <<screen, timer, modal, p5Vars, playVars, uiVars, loading,
                 storage, nextRec, ops>>

\* await saveNotes(updatedNotes) returns (it swallows a failed write);
\* setSelectedNote(newNote); setModalVisible(true); finally
StopSaved(t) ==
  /\ tasks[t].kind = "stop" /\ tasks[t].pc = "saving"
  /\ storageQ # <<>> /\ Head(storageQ).op = "set" /\ Head(storageQ).task = t
  /\ \E ok \in BOOLEAN : storage' = Written(ok)
  /\ storageQ' = Tail(storageQ)
  /\ selectedNote' = <<Selected(Head(Head(storageQ).notes))>>
  /\ modalVisible' = TRUE
  /\ tasks' = [tasks EXCEPT ![t] = NoTask]
  /\ StopFinally
  /\ UNCHANGED <<screen, timer, modal, p5Vars, playVars, voiceNotes,
                 actionModalVisible, loading, files, devVars, now, ops>>

\* start and stop of a recording by the user
NextCapture ==
  \/ LoadNotes
  \/ StartRecording
  \/ \E t \in TaskIds : StartPermission(t)
  \/ \E t \in TaskIds : StartBegin(t)
  \/ StopRecording
  \/ \E t \in TaskIds : StopUnload(t)
  \/ \E t \in TaskIds : StopSaved(t)

NextRecording ==
  \/ NextCapture
  \/ TimerTick

\* The records screen: a recording session with its timer.
SpecRecording == InitRecords /\ [][NextRecording]_vars

\* ------------------------------------------------------------ deleteNote
\* noteToDelete = voiceNotes.find(...); the rest runs after the file delete
DeleteTask(id, notes) ==
  [NoTask EXCEPT !.kind = "delete", !.pc = "unlink", !.id = id, !.notes = notes,
                 !.uri = Find(notes, id)[1].uri]

\* const updatedNotes = voiceNotes.filter(...); setVoiceNotes; saveNotes
DeleteApply(t, id, notes) ==
  LET updatedNotes == FilterOut(notes, id)
  IN /\ voiceNotes' = updatedNotes
     /\ storageQ' = SetItem(updatedNotes, t)
     /\ tasks' = [tasks EXCEPT ![t] =
                    [NoTask EXCEPT !.kind = "delete", !.pc = "saving", !.id = id]]

\* deleteNote(noteId): the swipe action of a list item, or Delete Note of
\* the action modal for the selected note.
DeleteNote ==
  /\ screen = "Records"
  /\ FreeTasks # {}
  /\ Command
  /\ \E id \in Ids(voiceNotes) \cup {selectedNote[i].id : i \in 1..Len(selectedNote)} :
       /\ \/ NoModal /\ ~loading /\ id \in Ids(voiceNotes)
          \/ actionModalVisible /\ selectedNote # <<>> /\ id = selectedNote[1].id
       /\ IF Find(voiceNotes, id) # <<>>
            THEN /\ tasks' = [tasks EXCEPT ![NewTask] = DeleteTask(id, voiceNotes)]
                 /\ UNCHANGED <<voiceNotes, storageQ>>
            ELSE DeleteApply(NewTask, id, voiceNotes)
  /\ UNCHANGED <<screen, timer, modal, p5Vars, playVars, uiVars, loading,
                 recVars, storage, files, devVars, now>>

\* await FileSystem.deleteAsync(noteToDelete.uri).catch(() => {})
DeleteUnlink(t) ==
  /\ tasks[t].kind = "delete" /\ tasks[t].pc = "unlink"
  /\ \E ok \in BOOLEAN :
       files' = IF ok THEN files \ {tasks[t].uri} ELSE files
  /\ DeleteApply(t, tasks[t].id, tasks[t].notes)
  /\ UNCHANGED <<screen, timer, modal, p5Vars, playVars, uiVars, loading,
                 recVars, storage, devVars, now, ops>>

\* await saveNotes(updatedNotes) returns; setActionModalVisible(false)
DeleteSaved(t) ==
  /\ tasks[t].kind = "delete" /\ tasks[t].pc = "saving"
  /\ storageQ # <<>> /\ Head(storageQ).op = "set" /\ Head(storageQ).task = t
  /\ \E ok \in BOOLEAN : storage' = Written(ok)
  /\ storageQ' = Tail(storageQ)
  /\ actionModalVisible' = FALSE
  /\ tasks' = [tasks EXCEPT ![t] = NoTask]
  /\ UNCHANGED <<screen, timer, modal, p5Vars, playVars, voiceNotes,
                 selectedNote, modalVisible, loading, recVars, files, devVars,
                 now, ops>>

\* -------------------------------------------------------------- editNote
\* onLongPress of a list item: setSelectedNote(item); setActionModalVisible
LongPress ==
  /\ screen = "Records"
  /\ NoModal /\ ~loading
  /\ \E i \in 1..Len(voiceNotes) : selectedNote' = <<Selected(voiceNotes[i])>>
  /\ actionModalVisible' = TRUE
  /\ UNCHANGED <<screen, timer, modal, p5Vars, playVars, voiceNotes,
                 modalVisible, loading, recVars, tasks, storeVars, files,
                 devVars, now, ops>>

\* Edit Note of the action modal
ActionEdit ==
  /\ screen = "Records"
  /\ actionModalVisible
  /\ modalVisible' = TRUE
  /\ actionModalVisible' = FALSE
  /\ UNCHANGED <<screen, timer, modal, p5Vars, playVars, voiceNotes,
                 selectedNote, loading, recVars, tasks, storeVars, files,
                 devVars, now, ops>>

\* Cancel of either modal, or the back button
CloseModal ==
  /\ screen = "Records"
  /\ \/ actionModalVisible /\ actionModalVisible' = FALSE /\ UNCHANGED modalVisible
     \/ modalVisible /\ modalVisible' = FALSE /\ UNCHANGED actionModalVisible
  /\ UNCHANGED <<screen, timer, modal, p5Vars, playVars, voiceNotes,
                 selectedNote, loading, recVars, tasks, storeVars, files,
                 devVars, now, ops>>

\* onChangeText of the edit modal
TypeText ==
  /\ screen = "Records"
  /\ modalVisible /\ selectedNote # <<>>
  /\ \E text \in Texts : selectedNote' = <<[selectedNote[1] EXCEPT !.text = text]>>
  /\ UNCHANGED <<screen, timer, modal, p5Vars, playVars, voiceNotes,
                 modalVisible, actionModalVisible, loading, recVars, tasks,
                 storeVars, files, devVars, now, ops>>

\* editNote(newText): no check of newText
EditApply(t, id, newText) ==
  LET updatedNotes == Rename(voiceNotes, id, newText)
  IN /\ voiceNotes' = updatedNotes
     /\ storageQ' = SetItem(updatedNotes, t)
     /\ tasks' = [tasks EXCEPT ![t] =
                    [NoTask EXCEPT !.kind = "edit", !.pc = "saving", !.id = id]]

\* Save of the edit modal: selectedNote && editNote(selectedNote.text)
EditNote ==
  /\ screen = "Records"
  /\ modalVisible /\ selectedNote # <<>>
  /\ FreeTasks # {}
  /\ Command
  /\ EditApply(NewTask, selectedNote[1].id, selectedNote[1].text)
  /\ UNCHANGED <<screen, timer, modal, p5Vars, playVars, uiVars, loading,
                 recVars, storage, files, devVars, now>>

\* await saveNotes(updatedNotes) returns; setModalVisible(false);
\* setSelectedNote(null)
EditSaved(t) ==
  /\ tasks[t].kind = "edit" /\ tasks[t].pc = "saving"
  /\ storageQ # <<>> /\ Head(storageQ).op = "set" /\ Head(storageQ).task = t
  /\ \E ok \in BOOLEAN : storage' = Written(ok)
  /\ storageQ' = Tail(storageQ)
  /\ modalVisible' = FALSE
  /\ selectedNote' = <<>>
  /\ tasks' = [tasks EXCEPT ![t] = NoTask]
  /\ UNCHANGED <<screen, timer, modal, p5Vars, playVars, voiceNotes,
                 actionModalVisible, loading, recVars, files, devVars, now,
                 ops>>

NextNotes ==
  \/ NextCapture
  \/ DeleteNote
  \/ \E t \in TaskIds : DeleteUnlink(t)
  \/ \E t \in TaskIds : DeleteSaved(t)
  \/ LongPress
  \/ ActionEdit
  \/ CloseModal
  \/ TypeText
  \/ EditNote
  \/ \E t \in TaskIds : EditSaved(t)

\* The records screen: the note collection and its store (notes are
\* created by user stops, renamed and deleted).
SpecNotes == InitRecords /\ [][NextNotes]_vars

\* sound.unloadAsync() on sound h (0 is null)
Unloaded(snds, h) ==
  IF h = 0 THEN snds
  ELSE [snds EXCEPT ![h].loaded = FALSE, ![h].playing = FALSE]

\* -------------------------------------------------------------- playAudio
NewSound == [loaded |-> TRUE, playing |-> TRUE, pos |-> 0, finishing |-> FALSE]

\* the play button of a list item whose note is not the current one:
\* playAudio(item.uri, item.id)
PlayAudio ==
  /\ screen = "Records"
  /\ NoModal /\ ~loading
  /\ FreeTasks # {}
  /\ Command
  /\ \E i \in 1..Len(voiceNotes) :
       /\ playbackState.currentNoteId # voiceNotes[i].id
       /\ tasks' = [tasks EXCEPT ![NewTask] =
            [NoTask EXCEPT !.kind = "play",
                           !.pc = IF currentSound # 0 THEN "unload" ELSE "create",
                           !.sound = currentSound,
                           !.id = voiceNotes[i].id, !.uri = voiceNotes[i].uri]]
  /\ UNCHANGED <<screen, timer, modal, p5Vars, playVars, voiceNotes, uiVars,
                 loading, recVars, storeVars, files, devVars, now>>

\* if (currentSound) await currentSound.unloadAsync(): a rejection ends the
\* handler in its catch
PlayUnload(t) ==
  /\ tasks[t].kind = "play" /\ tasks[t].pc = "unload"
  /\ \E ok \in BOOLEAN :
       IF ok
         THEN /\ sounds' = [sounds EXCEPT ![tasks[t].sound].loaded = FALSE,
                                          ![tasks[t].sound].playing = FALSE]
              /\ tasks' = [tasks EXCEPT ![t].pc = "create"]
         ELSE /\ tasks' = [tasks EXCEPT ![t] = NoTask]
              /\ UNCHANGED sounds
  /\ UNCHANGED <<screen, timer, modal, p5Vars, currentSound, playbackState,
                 voiceNotes, uiVars, loading, recVars, storeVars, files,
                 devVars, now, ops>>

\* await Audio.Sound.createAsync({ uri }, { shouldPlay: true, ... });
\* setCurrentSound(sound); setPlaybackState(playing, noteId, 0);
\* sound.setOnPlaybackStatusUpdate(...).  The load needs the file.
PlayCreate(t) ==
  /\ tasks[t].kind = "play" /\ tasks[t].pc = "create"
  /\ \E ok \in BOOLEAN :
       /\ ok => tasks[t].uri \in files
       /\ IF ok
            THEN /\ sounds' = Append(sounds, NewSound)
                 /\ currentSound' = Len(sounds) + 1
                 /\ playbackState' = [isPlaying |-> TRUE,
                                      currentNoteId |-> tasks[t].id,
                                      progress |-> 0]
            ELSE UNCHANGED playVars
  /\ tasks' = [tasks EXCEPT ![t] = NoTask]
  /\ UNCHANGED <<screen, timer, modal, p5Vars, voiceNotes, uiVars, loading,
                 recVars, storeVars, files, devVars, now, ops>>

\* The status callback of a playing sound, every
\* progressUpdateIntervalMillis: progress is positionMillis / durationMillis
\* (kept as positionMillis, durationMillis is the same for every file); at
\* the end of the file the status has didJustFinish and the callback awaits
\* sound.unloadAsync().
PlaybackStatus(h) ==
  /\ screen = "Records"
  /\ sounds[h].loaded /\ sounds[h].playing /\ sounds[h].pos < DurationMillis
  /\ LET pos == sounds[h].pos + progressUpdateIntervalMillis
         didJustFinish == pos = DurationMillis
     IN /\ sounds' = [sounds EXCEPT ![h].pos = pos,
                                    ![h].playing = ~didJustFinish,
                                    ![h].finishing = didJustFinish]
        /\ playbackState' = [playbackState EXCEPT !.progress = pos]
  /\ UNCHANGED <<screen, timer, modal, p5Vars, currentSound, voiceNotes,
                 uiVars, loading, recVars, tasks, storeVars, files, devVars,
                 now, ops>>

\* ... await sound.unloadAsync() of the callback returns;
\* setCurrentSound(null); setPlaybackState(not playing, null, 0).  A
\* rejection ends the callback.
PlaybackFinished(h) ==
  /\ sounds[h].finishing
  /\ \E ok \in BOOLEAN :
       IF ok
         THEN /\ sounds' = [sounds EXCEPT ![h].loaded = FALSE,
                                          ![h].playing = FALSE,
                                          ![h].finishing = FALSE]
              /\ currentSound' = 0
              /\ playbackState' = IdlePlayback
         ELSE /\ sounds' = [sounds EXCEPT ![h].finishing = FALSE]
              /\ UNCHANGED <<currentSound, playbackState>>
  /\ UNCHANGED <<screen, timer, modal, p5Vars, voiceNotes, uiVars, loading,
                 recVars, tasks, storeVars, files, devVars, now, ops>>

\* the pause button of the current note: pauseAudio(), which reads the
\* currentSound of its render
PauseAudio ==
  /\ screen = "Records"
  /\ NoModal /\ ~loading
  /\ playbackState.currentNoteId \in Ids(voiceNotes) /\ playbackState.isPlaying
  /\ currentSound # 0
  /\ FreeTasks # {}
  /\ tasks' = [tasks EXCEPT ![NewTask] =
                 [NoTask EXCEPT !.kind = "pause", !.pc = "pause",
                                !.sound = currentSound]]
  /\ UNCHANGED <<screen, timer, modal, p5Vars, playVars, voiceNotes, uiVars,
                 loading, recVars, storeVars, files, devVars, now, ops>>

\* await currentSound.pauseAsync(); setPlaybackState(not playing).  The
\* call rejects on a sound that is not loaded.
PauseDone(t) ==
  /\ tasks[t].kind = "pause"
  /\ \E ok \in BOOLEAN :
       /\ ok => sounds[tasks[t].sound].loaded
       /\ IF ok
            THEN /\ sounds' = [sounds EXCEPT ![tasks[t].sound].playing = FALSE]
                 /\ playbackState' = [playbackState EXCEPT !.isPlaying = FALSE]
            ELSE UNCHANGED <<sounds, playbackState>>
  /\ tasks' = [tasks EXCEPT ![t] = NoTask]
  /\ UNCHANGED <<screen, timer, modal, p5Vars, currentSound, voiceNotes,
                 uiVars, loading, recVars, storeVars, files, devVars, now,
                 ops>>

\* the play button of the current note while it is not playing:
\* resumeAudio()
ResumeAudio ==
  /\ screen = "Records"
  /\ NoModal /\ ~loading
  /\ playbackState.currentNoteId \in Ids(voiceNotes) /\ ~playbackState.isPlaying
  /\ currentSound # 0
  /\ FreeTasks # {}
  /\ tasks' = [tasks EXCEPT ![NewTask] =
                 [NoTask EXCEPT !.kind = "resume", !.pc = "resume",
                                !.sound = currentSound]]
  /\ UNCHANGED <<screen, timer, modal, p5Vars, playVars, voiceNotes, uiVars,
                 loading, recVars, storeVars, files, devVars, now, ops>>

\* await currentSound.playAsync(); setPlaybackState(playing)
ResumeDone(t) ==
  /\ tasks[t].kind = "resume"
  /\ \E ok \in BOOLEAN :
       /\ ok => sounds[tasks[t].sound].loaded
       /\ IF ok
            THEN /\ sounds' = [sounds EXCEPT ![tasks[t].sound].playing =
                                               sounds[tasks[t].sound].pos < DurationMillis]
                 /\ playbackState' = [playbackState EXCEPT !.isPlaying = TRUE]
            ELSE UNCHANGED <<sounds, playbackState>>
  /\ tasks' = [tasks EXCEPT ![t] = NoTask]
  /\ UNCHANGED <<screen, timer, modal, p5Vars, currentSound, voiceNotes,
                 uiVars, loading, recVars, storeVars, files, devVars, now,
                 ops>>

NextPlayback ==
  \/ PlayAudio
  \/ \E t \in TaskIds : PlayUnload(t)
  \/ \E t \in TaskIds : PlayCreate(t)
  \/ \E h \in 1..Len(sounds) : PlaybackStatus(h)
  \/ \E h \in 1..Len(sounds) : PlaybackFinished(h)
  \/ PauseAudio
  \/ \E t \in TaskIds : PauseDone(t)
  \/ ResumeAudio
  \/ \E t \in TaskIds : ResumeDone(t)

NextSession ==
  \/ NextCapture
  \/ NextPlayback

\* The records screen: recording sessions and playback sessions.
SpecSession == InitRecords /\ [][NextSession]_vars

\* cleanupAudioSession of a render whose recording is rec and whose
\* currentSound is snd (0 is null): if (recording) await recording
\* .stopAndUnloadAsync(); if (currentSound) await currentSound.unloadAsync()
CleanupAudioSession(rec, snd) ==
  /\ capture' = capture \ {rec}
  /\ sounds' = Unloaded(sounds, snd)

\* The screen unmounts: the cleanups of its effects run.  The audio
\* session effect has no dependencies, so its cleanup is the one the first
\* render returned and calls the cleanupAudioSession of that render, where
\* recording and currentSound are the initial null; the timer effect's
\* cleanup clears the interval.
Unmount ==
  /\ screen = "Records"
  /\ screen' = "Unmounted"
  /\ CleanupAudioSession(0, 0)
  /\ interval' = NoInterval
  /\ UNCHANGED <<timer, modal, p5Vars, currentSound, playbackState, voiceNotes,
                 uiVars, loading, recording, recordingState, tasks, storeVars,
                 files, nextRec, now, ops>>

\* The records screen from mount to unmount: recording and playback
\* sessions, then the cleanup.
SpecMount == InitRecords /\ [][NextSession \/ Unmount]_vars

\* The records screen: recordings with their timer while notes are
\* renamed and deleted.
SpecJournal == InitRecords /\ [][NextNotes \/ TimerTick]_vars

\* playback of the stored notes, and their deletion from the list
NextLibrary ==
  \/ LoadNotes
  \/ NextPlayback
  \/ DeleteNote
  \/ \E t \in TaskIds : DeleteUnlink(t)
  \/ \E t \in TaskIds : DeleteSaved(t)

\* The records screen: the stored notes are played and deleted.
SpecLibrary == InitRecords /\ [][NextLibrary]_vars

\* =================================================== part_005 (a variant
\* of the records screen that opens the note modal)
InitP5 == screen = "P5" /\ InitCommon

\* one more command of the run: a title is saved after a start and a stop
Command5 == ops < MaxOps5 /\ ops' = ops + 1

NoModal5 == ~modalState.recording /\ ~modalState.note

\* newTitle.trim()
Trim(text) == IF text = " " THEN "" ELSE text

\* the interval of the timer effect holds no state of its render
P5TimerEffect(old, new) ==
  IF old.isRecording = new.isRecording /\ old.isPaused = new.isPaused
    THEN interval
    ELSE IF new.isRecording /\ ~new.isPaused
           THEN [NoInterval EXCEPT !.on = TRUE]
           ELSE NoInterval

\* handleStartRecording: the record button is disabled while
\* loading.recording
P5StartRecording ==
  /\ screen = "P5"
  /\ ~recordingState.isRecording /\ ~loadingRecording /\ NoModal5
  /\ FreeTasks # {}
  /\ Command5
  /\ loadingRecording' = TRUE
  /\ tasks' = [tasks EXCEPT ![NewTask] =
                 [NoTask EXCEPT !.kind = "p5start", !.pc = "perm"]]
  /\ UNCHANGED <<screen, timer, modal, modalState, newTitle, playVars,
                 voiceNotes, uiVars, loading, recVars, storeVars, files,
                 devVars, now>>

\* await Audio.requestPermissionsAsync()
P5StartPermission(t) ==
  /\ tasks[t].kind = "p5start" /\ tasks[t].pc = "perm"
  /\ \E status \in {"granted", "denied"} :
       IF status = "granted"
         THEN /\ tasks' = [tasks EXCEPT ![t].pc = "create"]
              /\ UNCHANGED loadingRecording
         ELSE /\ tasks' = [tasks EXCEPT ![t] = NoTask]
              /\ loadingRecording' = FALSE
  /\ UNCHANGED <<screen, timer, modal, modalState, newTitle, playVars,
                 voiceNotes, uiVars, loading, recVars, storeVars, files,
                 devVars, now, ops>>

\* await Audio.Recording.createAsync(recordingOptions); setRecording;
\* setRecordingState; finally loading.recording is false
P5StartCreate(t) ==
  /\ tasks[t].kind = "p5start" /\ tasks[t].pc = "create"
  /\ nextRec' = nextRec + 1
  /\ \E ok \in BOOLEAN :
       /\ ok => capture = {}
       /\ IF ok
            THEN LET new == [isRecording |-> TRUE, duration |-> 0, isPaused |-> FALSE]
                 IN /\ capture' = {nextRec + 1}
                    /\ recording' = nextRec + 1
                    /\ recordingState' = new
                    /\ interval' = P5TimerEffect(recordingState, new)
            ELSE UNCHANGED <<capture, recVars>>
  /\ loadingRecording' = FALSE
  /\ tasks' = [tasks EXCEPT ![t] = NoTask]
  /\ UNCHANGED <<screen, timer, modal, modalState, newTitle, playVars,
                 voiceNotes, uiVars, loading, storeVars, files, now, ops>>

\* The interval of the timer effect: duration + 1 on every tick.
P5TimerTick ==
  /\ screen = "P5"
  /\ interval.on
  /\ recordingState.duration < TickBound
  /\ recordingState' =
       [recordingState EXCEPT !.duration = recordingState.duration + 1]
  /\ UNCHANGED <<screen, timer, modal, p5Vars, playVars, voiceNotes, uiVars,
                 loading, recording, interval, tasks, storeVars, files,
                 devVars, now, ops>>

\* handlePauseRecording: the pause / play button next to the record
\* button; the handler holds the recording and the recordingState of its
\* render
P5PauseRecording ==
  /\ screen = "P5"
  /\ recordingState.isRecording /\ ~loadingRecording /\ NoModal5
  /\ recording # 0
  /\ FreeTasks # {}
  /\ tasks' = [tasks EXCEPT ![NewTask] =
                 [NoTask EXCEPT !.kind = "p5pause",
                                !.pc = IF recordingState.isPaused THEN "start"
                                                                  ELSE "pause",
                                !.rec = recording,
                                !.dur = recordingState.duration]]
  /\ UNCHANGED <<screen, timer, modal, p5Vars, playVars, voiceNotes, uiVars,
                 loading, recVars, storeVars, files, devVars, now, ops>>

\* await recording.startAsync() / pauseAsync();
\* setRecordingState(prev => ({ ...prev, isPaused: !prev.isPaused }))
P5PauseDone(t) ==
  /\ tasks[t].kind = "p5pause"
  /\ \E ok \in BOOLEAN :
       /\ ok => tasks[t].rec \in capture
       /\ IF ok
            THEN LET new == [recordingState EXCEPT
                               !.isPaused = ~recordingState.isPaused]
                 IN /\ recordingState' = new
                    /\ interval' = P5TimerEffect(recordingState, new)
            ELSE UNCHANGED <<recordingState, interval>>
  /\ tasks' = [tasks EXCEPT ![t] = NoTask]
  /\ UNCHANGED <<screen, timer, modal, p5Vars, playVars, voiceNotes, uiVars,
                 loading, recording, storeVars, files, devVars, now, ops>>

\* handleStopRecording: if (!recording) return; loading.recording is true
P5StopRecording ==
  /\ screen = "P5"
  /\ recordingState.isRecording /\ ~loadingRecording /\ NoModal5
  /\ recording # 0
  /\ FreeTasks # {}
  /\ Command5
  /\ loadingRecording' = TRUE
  /\ tasks' = [tasks EXCEPT ![NewTask] =
                 [StopTask(recording, voiceNotes, recordingState.duration, FALSE)
                    EXCEPT !.kind = "p5stop"]]
  /\ UNCHANGED <<screen, timer, modal, modalState, newTitle, playVars,
                 voiceNotes, uiVars, loading, recVars, storeVars, files,
                 devVars, now>>

\* finally { setRecording(null); setRecordingState(idle); loading.recording
\* is false }
P5StopFinally ==
  /\ recording' = 0
  /\ recordingState' = IdleRecording
  /\ interval' = P5TimerEffect(recordingState, IdleRecording)
  /\ loadingRecording' = FALSE

\* await recording.stopAndUnloadAsync(); getURI(); the note is built,
\* selected, the save-recording modal opens with an empty title, the note
\* is put in front of the captured collection, set and handed to saveNotes
P5StopUnload(t) ==
  /\ tasks[t].kind = "p5stop" /\ tasks[t].pc = "stopping"
  /\ \E outcome \in {"ok", "nouri", "reject"} :
       /\ outcome \in {"ok", "nouri"} => tasks[t].rec \in capture
       /\ capture' = IF outcome = "reject" THEN capture
                                           ELSE capture \ {tasks[t].rec}
       /\ IF outcome = "ok"
            THEN \E reading \in DateNow :
                 LET newNote == Note(reading, "Untitled Note", tasks[t].rec,
                                     tasks[t].dur)
                     updatedNotes == Prepend(newNote, tasks[t].notes)
                 IN /\ now' = reading
                    /\ files' = files \cup {tasks[t].rec}
                    /\ selectedNote' = <<Selected(newNote)>>
                    /\ modalState' = [modalState EXCEPT !.recording = TRUE]
                    /\ newTitle' = ""
                    /\ voiceNotes' = updatedNotes
                    /\ storageQ' = SetItem(updatedNotes, t)
                    /\ tasks' = [tasks EXCEPT ![t].pc = "saving",
                                              ![t].notes = <<>>]
                    /\ UNCHANGED <<recVars, loadingRecording>>
            ELSE /\ tasks' = [tasks EXCEPT ![t] = NoTask]
                 /\ P5StopFinally
                 /\ UNCHANGED <<voiceNotes, storageQ, files, now, selectedNote,
                                modalState, newTitle>>
  /\ UNCHANGED <<screen, timer, modal, playVars, modalVisible,
                 actionModalVisible, loading, storage, nextRec, ops>>

\* await saveNotes(updatedNotes) returns; finally
P5StopSaved(t) ==
  /\ tasks[t].kind = "p5stop" /\ tasks[t].pc = "saving"
  /\ storageQ # <<>> /\ Head(storageQ).op = "set" /\ Head(storageQ).task = t
  /\ \E ok \in BOOLEAN : storage' = Written(ok)
  /\ storageQ' = Tail(storageQ)
  /\ tasks' = [tasks EXCEPT ![t] = NoTask]
  /\ P5StopFinally
  /\ UNCHANGED <<screen, timer, modal, modalState, newTitle, playVars,
                 voiceNotes, uiVars, loading, files, devVars, now, ops>>

\* handleUpdateNote(note): useCallback on [voiceNotes], no check of the text
HandleUpdateNote(t, note) ==
  LET updatedNotes == Rename(voiceNotes, note.id, note.text)
  IN /\ voiceNotes' = updatedNotes
     /\ storageQ' = SetItem(updatedNotes, t)
     /\ tasks' = [tasks EXCEPT ![t] =
                    [NoTask EXCEPT !.kind = "p5update", !.pc = "saving",
                                   !.id = note.id]]

\* onChangeText of the save-recording modal
P5TypeTitle ==
  /\ screen = "P5"
  /\ modalState.recording
  /\ \E text \in Titles : newTitle' = text
  /\ UNCHANGED <<screen, timer, modal, modalState, loadingRecording, playVars,
                 voiceNotes, uiVars, loading, recVars, tasks, storeVars,
                 files, devVars, now, ops>>

\* Save of the save-recording modal:
\* if (selectedNote && newTitle.trim()) { handleUpdateNote(...); close }
P5SaveTitle ==
  /\ screen = "P5"
  /\ modalState.recording
  /\ selectedNote # <<>> /\ Trim(newTitle) # ""
  /\ FreeTasks # {}
  /\ Command5
  /\ HandleUpdateNote(NewTask, [selectedNote[1] EXCEPT !.text = Trim(newTitle)])
  /\ modalState' = [modalState EXCEPT !.recording = FALSE]
  /\ UNCHANGED <<screen, timer, modal, newTitle, loadingRecording, playVars,
                 uiVars, loading, recVars, storage, files, devVars, now>>

\* Cancel of the save-recording modal, or a tap on its overlay
P5CancelTitle ==
  /\ screen = "P5"
  /\ modalState.recording
  /\ modalState' = [modalState EXCEPT !.recording = FALSE]
  /\ UNCHANGED <<screen, timer, modal, newTitle, loadingRecording, playVars,
                 voiceNotes, uiVars, loading, recVars, tasks, storeVars,
                 files, devVars, now, ops>>

\* onPress of a list item: setSelectedNote(item); the note modal opens
P5OpenNote ==
  /\ screen = "P5"
  /\ NoModal5 /\ ~loading
  /\ \E i \in 1..Len(voiceNotes) : selectedNote' = <<Selected(voiceNotes[i])>>
  /\ modalState' = [modalState EXCEPT !.note = TRUE]
  /\ UNCHANGED <<screen, timer, modal, newTitle, loadingRecording, playVars,
                 voiceNotes, modalVisible, actionModalVisible, loading,
                 recVars, tasks, storeVars, files, devVars, now, ops>>

\* onNoteTextChange of the note modal
P5EditText ==
  /\ screen = "P5"
  /\ modalState.note /\ ~modalState.recording /\ selectedNote # <<>>
  /\ \E text \in Texts : selectedNote' = <<[selectedNote[1] EXCEPT !.text = text]>>
  /\ UNCHANGED <<screen, timer, modal, p5Vars, playVars, voiceNotes,
                 modalVisible, actionModalVisible, loading, recVars, tasks,
                 storeVars, files, devVars, now, ops>>

\* onUpdateNote of the note modal: handleUpdateNote(selectedNote)
P5UpdateNote ==
  /\ screen = "P5"
  /\ modalState.note /\ ~modalState.recording /\ selectedNote # <<>>
  /\ FreeTasks # {}
  /\ Command5
  /\ HandleUpdateNote(NewTask, selectedNote[1])
  /\ UNCHANGED <<screen, timer, modal, p5Vars, playVars, uiVars, loading,
                 recVars, storage, files, devVars, now>>

\* await saveNotes(updatedNotes) returns; modalState.note is false
P5UpdateSaved(t) ==
  /\ tasks[t].kind = "p5update" /\ tasks[t].pc = "saving"
  /\ storageQ # <<>> /\ Head(storageQ).op = "set" /\ Head(storageQ).task = t
  /\ \E ok \in BOOLEAN : storage' = Written(ok)
  /\ storageQ' = Tail(storageQ)
  /\ modalState' = [modalState EXCEPT !.note = FALSE]
  /\ tasks' = [tasks EXCEPT ![t] = NoTask]
  /\ UNCHANGED <<screen, timer, modal, newTitle, loadingRecording, playVars,
                 voiceNotes, uiVars, loading, recVars, files, devVars, now,
                 ops>>

\* onClose of the note modal
P5CloseNote ==
  /\ screen = "P5"
  /\ modalState.note /\ ~modalState.recording
  /\ modalState' = [modalState EXCEPT !.note = FALSE]
  /\ UNCHANGED <<screen, timer, modal, newTitle, loadingRecording, playVars,
                 voiceNotes, uiVars, loading, recVars, tasks, storeVars,
                 files, devVars, now, ops>>

\* setVoiceNotes(prevNotes => { updatedNotes = prevNotes.filter(...);
\* saveNotes(updatedNotes); return updatedNotes }): the write is not
\* awaited; modalState.note is false
P5DeleteApply(t, id) ==
  LET updatedNotes == FilterOut(voiceNotes, id)
  IN /\ voiceNotes' = updatedNotes
     /\ storageQ' = SetItem(updatedNotes, 0)
     /\ modalState' = [modalState EXCEPT !.note = FALSE]
     /\ tasks' = [tasks EXCEPT ![t] = NoTask]

\* onDeleteNote of the note modal: handleDeleteNote(selectedNote.id), and
\* OK of the confirmation alert; noteToDelete = voiceNotes.find(...)
P5DeleteNote ==
  /\ screen = "P5"
  /\ modalState.note /\ ~modalState.recording /\ selectedNote # <<>>
  /\ FreeTasks # {}
  /\ Command5
  /\ LET id == selectedNote[1].id
     IN IF Find(voiceNotes, id) # <<>>
          THEN /\ tasks' = [tasks EXCEPT ![NewTask] =
                              [DeleteTask(id, voiceNotes) EXCEPT
                                 !.kind = "p5delete", !.notes = <<>>]]
               /\ UNCHANGED <<voiceNotes, storageQ, modalState>>
          ELSE P5DeleteApply(NewTask, id)
  /\ UNCHANGED <<screen, timer, modal, newTitle, loadingRecording, playVars,
                 uiVars, loading, recVars, storage, files, devVars, now>>

\* await FileSystem.deleteAsync(noteToDelete.uri, { idempotent: true })
\* inside the try: a rejection goes to the catch, which reports it
P5DeleteUnlink(t) ==
  /\ tasks[t].kind = "p5delete" /\ tasks[t].pc = "unlink"
  /\ \E ok \in BOOLEAN :
       IF ok
         THEN /\ files' = files \ {tasks[t].uri}
              /\ P5DeleteApply(t, tasks[t].id)
         ELSE /\ tasks' = [tasks EXCEPT ![t] = NoTask]
              /\ UNCHANGED <<files, voiceNotes, storageQ, modalState>>
  /\ UNCHANGED <<screen, timer, modal, newTitle, loadingRecording, playVars,
                 uiVars, loading, recVars, storage, devVars, now, ops>>

\* the write of a saveNotes call that nothing awaits completes
P5WriteDone ==
  /\ storageQ # <<>> /\ Head(storageQ).op = "set" /\ Head(storageQ).task = 0
  /\ \E ok \in BOOLEAN : storage' = Written(ok)
  /\ storageQ' = Tail(storageQ)
  /\ UNCHANGED <<screen, timer, modal, p5Vars, playVars, voiceNotes, uiVars,
                 loading, recVars, tasks, files, devVars, now, ops>>

NextP5Recording ==
  \/ LoadNotes
  \/ P5StartRecording
  \/ \E t \in TaskIds : P5StartPermission(t)
  \/ \E t \in TaskIds : P5StartCreate(t)
  \/ P5TimerTick
  \/ P5PauseRecording
  \/ \E t \in TaskIds : P5PauseDone(t)
  \/ P5StopRecording
  \/ \E t \in TaskIds : P5StopUnload(t)
  \/ \E t \in TaskIds : P5StopSaved(t)
  \/ P5TypeTitle
  \/ P5SaveTitle
  \/ P5CancelTitle
  \/ \E t \in TaskIds : P5UpdateSaved(t)

\* part_005: a recording session, its timer and the save-recording modal.
SpecP5Recording == InitP5 /\ [][NextP5Recording]_vars

\* part_005: start and stop of a recording, the save-recording modal
\* dismissed without a title
NextP5Capture ==
  \/ LoadNotes
  \/ P5StartRecording
  \/ \E t \in TaskIds : P5StartPermission(t)
  \/ \E t \in TaskIds : P5StartCreate(t)
  \/ P5TimerTick
  \/ P5StopRecording
  \/ \E t \in TaskIds : P5StopUnload(t)
  \/ \E t \in TaskIds : P5StopSaved(t)
  \/ P5CancelTitle

\* Either records screen, from its start: the recording sessions of
\* RecordsScreen.tsx and those of part_005.
SpecStart == (InitRecords \/ InitP5) /\ [][NextRecording \/ NextP5Capture]_vars

NextP5Notes ==
  \/ LoadNotes
  \/ P5OpenNote
  \/ P5EditText
  \/ P5UpdateNote
  \/ \E t \in TaskIds : P5UpdateSaved(t)
  \/ P5CloseNote
  \/ P5DeleteNote
  \/ \E t \in TaskIds : P5DeleteUnlink(t)
  \/ P5WriteDone

\* part_005: the stored notes and the note modal.
SpecP5Notes == InitP5 /\ [][NextP5Notes]_vars

\* ============================================ VoiceNoteModal (the version
\* with handleSeek), shown for the note whose media file has uri 0
InitModal == screen = "Modal" /\ InitCommon

\* loadAudio(): if (!audioUri) return; setIsLoading(true); ...
LoadAudio == [NoTask EXCEPT !.kind = "load", !.pc = "create", !.uri = 0]

\* The load effect runs again (visible or loadAudio changed): the cleanup
\* of its last run unloads the sound of that render, then loadAudio() is
\* called if the modal is visible.
LoadEffect(visible, volume) ==
  /\ sounds' = Unloaded(sounds, modal.effectSound)
  /\ modal' = [modal EXCEPT !.visible = visible, !.volume = volume,
                            !.isLoading = visible \/ modal.isLoading,
                            !.effectSound = modal.sound]
  /\ IF visible
       THEN /\ FreeTasks # {}
            /\ Command
            /\ tasks' = [tasks EXCEPT ![NewTask] = LoadAudio]
       ELSE UNCHANGED <<tasks, ops>>

\* the parent shows the modal
ModalOpen ==
  /\ screen = "Modal"
  /\ ~modal.visible
  /\ LoadEffect(TRUE, modal.volume)
  /\ UNCHANGED <<screen, timer, p5Vars, currentSound, playbackState,
                 voiceNotes, uiVars, loading, recVars, storeVars, files,
                 devVars, now>>

\* onClose: the parent hides the modal
ModalClose ==
  /\ screen = "Modal"
  /\ modal.visible
  /\ LoadEffect(FALSE, modal.volume)
  /\ UNCHANGED <<screen, timer, p5Vars, currentSound, playbackState,
                 voiceNotes, uiVars, loading, recVars, storeVars, files,
                 devVars, now>>

\* handleVolumeChange(value): setVolume(value) gives a new loadAudio
\* (useCallback on [audioUri, volume]), so the load effect runs again
HandleVolumeChange ==
  /\ screen = "Modal"
  /\ modal.visible /\ ~modal.isLoading
  /\ \E value \in Volumes \ {modal.volume} : LoadEffect(TRUE, value)
  /\ UNCHANGED <<screen, timer, p5Vars, currentSound, playbackState,
                 voiceNotes, uiVars, loading, recVars, storeVars, files,
                 devVars, now>>

\* await Audio.Sound.createAsync({ uri: audioUri }, { shouldPlay: false });
\* setOnPlaybackStatusUpdate; setSound(sound); finally isLoading is false
LoadAudioDone(t) ==
  /\ tasks[t].kind = "load"
  /\ \E ok \in BOOLEAN :
       /\ ok => tasks[t].uri \in files
       /\ IF ok
            THEN /\ sounds' = Append(sounds, [NewSound EXCEPT !.playing = FALSE])
                 /\ modal' = [modal EXCEPT !.sound = Len(sounds) + 1,
                                           !.isLoading = FALSE]
            ELSE /\ modal' = [modal EXCEPT !.isLoading = FALSE]
                 /\ UNCHANGED sounds
  /\ tasks' = [tasks EXCEPT ![t] = NoTask]
  /\ UNCHANGED <<screen, timer, p5Vars, currentSound, playbackState,
                 voiceNotes, uiVars, loading, recVars, storeVars, files,
                 devVars, now, ops>>

\* The status callback of a loaded sound (while it plays, and after every
\* operation on it): setDuration; setPlaybackPosition; setIsPlaying
ModalStatus(h) ==
  /\ screen = "Modal"
  /\ sounds[h].loaded
  /\ \E adv \in {0, progressUpdateIntervalMillis} :
       /\ adv > 0 => sounds[h].playing /\ sounds[h].pos < DurationMillis
       /\ LET pos == sounds[h].pos + adv
              playing == sounds[h].playing /\ pos < DurationMillis
          IN /\ sounds' = [sounds EXCEPT ![h].pos = pos, ![h].playing = playing]
             /\ modal' = [modal EXCEPT !.duration = DurationMillis,
                                       !.playbackPosition = pos,
                                       !.isPlaying = playing]
  /\ UNCHANGED <<screen, timer, p5Vars, currentSound, playbackState,
                 voiceNotes, uiVars, loading, recVars, tasks, storeVars,
                 files, devVars, now, ops>>

\* handlePlayPause: if (!sound) return; the controls show while not loading
HandlePlayPause ==
  /\ screen = "Modal"
  /\ modal.visible /\ ~modal.isLoading
  /\ modal.sound # 0
  /\ FreeTasks # {}
  /\ Command
  /\ tasks' = [tasks EXCEPT ![NewTask] =
                 [NoTask EXCEPT !.kind = "toggle",
                                !.pc = IF modal.isPlaying THEN "pause" ELSE "play",
                                !.sound = modal.sound]]
  /\ UNCHANGED <<screen, timer, modal, p5Vars, playVars, voiceNotes, uiVars,
                 loading, recVars, storeVars, files, devVars, now>>

\* await sound.pauseAsync() / sound.playAsync(): rejects on a sound that
\* is not loaded (the catch logs it)
PlayPauseDone(t) ==
  /\ tasks[t].kind = "toggle"
  /\ \E ok \in BOOLEAN :
       /\ ok => sounds[tasks[t].sound].loaded
       /\ sounds' = IF ok
                      THEN [sounds EXCEPT ![tasks[t].sound].playing =
                              /\ tasks[t].pc = "play"
                              /\ sounds[tasks[t].sound].pos < DurationMillis]
                      ELSE sounds
  /\ tasks' = [tasks EXCEPT ![t] = NoTask]
  /\ UNCHANGED <<screen, timer, modal, p5Vars, currentSound, playbackState,
                 voiceNotes, uiVars, loading, recVars, storeVars, files,
                 devVars, now, ops>>

\* const newPosition = value * duration (value in tenths)
NewPosition(value, duration) == (value * duration) \div 10

\* what the player makes of a position outside the file
Clamp(position) ==
  IF position < 0 THEN 0
  ELSE IF position > DurationMillis THEN DurationMillis ELSE position

\* handleSeek(value): onSlidingComplete of the slider, and the skip buttons
\* with -0.1 and 0.1; if (sound) { newPosition = value * duration; ...
HandleSeek ==
  /\ screen = "Modal"
  /\ modal.visible /\ ~modal.isLoading
  /\ modal.sound # 0
  /\ FreeTasks # {}
  /\ Command
  /\ \E value \in SeekValues :
       tasks' = [tasks EXCEPT ![NewTask] =
                   [NoTask EXCEPT !.kind = "seek", !.pc = "position",
                                  !.sound = modal.sound,
                                  !.target = NewPosition(value, modal.duration)]]
  /\ UNCHANGED <<screen, timer, modal, p5Vars, playVars, voiceNotes, uiVars,
                 loading, recVars, storeVars, files, devVars, now>>

\* await sound.setPositionAsync(newPosition);
\* setPlaybackPosition(newPosition).  The call rejects on a sound that is not
\* loaded; a position outside the file is moved into it by the player or
\* rejected.
SeekDone(t) ==
  /\ tasks[t].kind = "seek"
  /\ \E ok \in BOOLEAN :
       /\ ok => sounds[tasks[t].sound].loaded
       /\ IF ok
            THEN /\ sounds' = [sounds EXCEPT
                                 ![tasks[t].sound].pos = Clamp(tasks[t].target),
                                 ![tasks[t].sound].playing =
                                   /\ sounds[tasks[t].sound].playing
                                   /\ Clamp(tasks[t].target) < DurationMillis]
                 /\ modal' = [modal EXCEPT !.playbackPosition = tasks[t].target]
            ELSE UNCHANGED <<sounds, modal>>
  /\ tasks' = [tasks EXCEPT ![t] = NoTask]
  /\ UNCHANGED <<screen, timer, p5Vars, currentSound, playbackState,
                 voiceNotes, uiVars, loading, recVars, storeVars, files,
                 devVars, now, ops>>

NextModal ==
  \/ ModalOpen
  \/ ModalClose
  \/ HandleVolumeChange
  \/ \E t \in TaskIds : LoadAudioDone(t)
  \/ \E h \in 1..Len(sounds) : ModalStatus(h)
  \/ HandlePlayPause
  \/ \E t \in TaskIds : PlayPauseDone(t)
  \/ HandleSeek
  \/ \E t \in TaskIds : SeekDone(t)

\* The note modal: its sound, the seeks and the volume.
SpecModal == InitModal /\ [][NextModal]_vars

\* =================================================== part_004 (a variant
\* of the records screen whose notes are id, text and uri)
InitP4 == screen = "P4" /\ InitCommon

P4Note(id, text, uri) == [id |-> id, text |-> text, uri |-> uri]

\* [...voiceNotes, newVoiceNote] of the render the handler was created in
AppendNote(notes, note) == Append(notes, note)

\* handleStartRecording: the record button shows the microphone while
\* recording is null
P4StartRecording ==
  /\ screen = "P4"
  /\ recording = 0
  /\ FreeTasks # {}
  /\ Command
  /\ tasks' = [tasks EXCEPT ![NewTask] =
                 [NoTask EXCEPT !.kind = "p4start", !.pc = "perm"]]
  /\ UNCHANGED <<screen, timer, modal, p5Vars, playVars, voiceNotes, uiVars,
                 loading, recVars, storeVars, files, devVars, now>>

\* const hasPermission = await requestPermissions(); if (!hasPermission)
\* return
P4StartPermission(t) ==
  /\ tasks[t].kind = "p4start" /\ tasks[t].pc = "perm"
  /\ \E status \in {"granted", "denied"} :
       tasks' = [tasks EXCEPT ![t] =
                   IF status = "granted" THEN [tasks[t] EXCEPT !.pc = "create"]
                                         ELSE NoTask]
  /\ UNCHANGED <<screen, timer, modal, p5Vars, playVars, voiceNotes, uiVars,
                 loading, recVars, storeVars, files, devVars, now, ops>>

\* await Audio.Recording.createAsync(HIGH_QUALITY); setRecording(recording)
P4StartCreate(t) ==
  /\ tasks[t].kind = "p4start" /\ tasks[t].pc = "create"
  /\ nextRec' = nextRec + 1
  /\ \E ok \in BOOLEAN :
       /\ ok => capture = {}
       /\ capture' = IF ok THEN {nextRec + 1} ELSE capture
       /\ recording' = IF ok THEN nextRec + 1 ELSE recording
  /\ tasks' = [tasks EXCEPT ![t] = NoTask]
  /\ UNCHANGED <<screen, timer, modal, p5Vars, playVars, voiceNotes, uiVars,
                 loading, recordingState, interval, storeVars, files, now,
                 ops>>

\* The interval of the timer effect, installed while recording is set:
\* setTimer(prevTime => prevTime + 1)
P4TimerTick ==
  /\ screen = "P4"
  /\ recording # 0
  /\ timer < TickBound
  /\ timer' = timer + 1
  /\ UNCHANGED <<screen, modal, p5Vars, playVars, voiceNotes, uiVars, loading,
                 recVars, tasks, storeVars, files, devVars, now, ops>>

\* handleStopRecording: if (!recording) return
P4StopRecording ==
  /\ screen = "P4"
  /\ recording # 0
  /\ FreeTasks # {}
  /\ Command
  /\ tasks' = [tasks EXCEPT ![NewTask] =
                 [StopTask(recording, voiceNotes, 0, FALSE) EXCEPT !.kind = "p4stop"]]
  /\ UNCHANGED <<screen, timer, modal, p5Vars, playVars, voiceNotes, uiVars,
                 loading, recVars, storeVars, files, devVars, now>>

\* await recording.stopAndUnloadAsync(); the note is built (newNoteText is
\* empty since the start: "Untitled note"), put behind the captured
\* collection, set, and written; a rejection goes to the catch
P4StopUnload(t) ==
  /\ tasks[t].kind = "p4stop" /\ tasks[t].pc = "stopping"
  /\ \E ok \in BOOLEAN :
       /\ ok => tasks[t].rec \in capture
       /\ IF ok
            THEN \E reading \in DateNow :
                 LET newVoiceNote == P4Note(reading, "Untitled note", tasks[t].rec)
                     updatedNotes == AppendNote(tasks[t].notes, newVoiceNote)
                 IN /\ now' = reading
                    /\ capture' = capture \ {tasks[t].rec}
                    /\ files' = files \cup {tasks[t].rec}
                    /\ voiceNotes' = updatedNotes
                    /\ storageQ' = SetItem(updatedNotes, t)
                    /\ tasks' = [tasks EXCEPT ![t].pc = "saving",
                                              ![t].notes = <<>>]
            ELSE /\ tasks' = [tasks EXCEPT ![t] = NoTask]
                 /\ UNCHANGED <<voiceNotes, storageQ, files, now, capture>>
  /\ UNCHANGED <<screen, timer, modal, p5Vars, playVars, uiVars, loading,
                 recVars, storage, nextRec, ops>>

\* await AsyncStorage.setItem(...) returns: setPreviewUrl; setRecording(null);
\* a rejection goes to the catch and recording stays
P4StopSaved(t) ==
  /\ tasks[t].kind = "p4stop" /\ tasks[t].pc = "saving"
  /\ storageQ # <<>> /\ Head(storageQ).op = "set" /\ Head(storageQ).task = t
  /\ \E ok \in BOOLEAN :
       /\ storage' = Written(ok)
       /\ recording' = IF ok THEN 0 ELSE recording
  /\ storageQ' = Tail(storageQ)
  /\ tasks' = [tasks EXCEPT ![t] = NoTask]
  /\ UNCHANGED <<screen, timer, modal, p5Vars, playVars, voiceNotes, uiVars,
                 loading, recordingState, interval, files, devVars, now, ops>>

NextP4 ==
  \/ LoadNotes
  \/ P4StartRecording
  \/ \E t \in TaskIds : P4StartPermission(t)
  \/ \E t \in TaskIds : P4StartCreate(t)
  \/ P4TimerTick
  \/ P4StopRecording
  \/ \E t \in TaskIds : P4StopUnload(t)
  \/ \E t \in TaskIds : P4StopSaved(t)

\* part_004: a recording session and its timer.
SpecP4 == InitP4 /\ [][NextP4]_vars

\* ------------------------------------------------------------------ claims
\* a setItem completes in this step
SaveDone ==
  /\ storageQ # <<>> /\ Head(storageQ).op = "set"
  /\ storageQ' = Tail(storageQ)

\* C1: whenever the storage write of a create, rename or delete
\* completes without error, the persisted collection equals the in-memory
\* collection.
C1_PersistedEqualsMemory ==
  [][(SaveDone /\ ~storage'.rejected) => storage'.notes = voiceNotes']_vars

\* C2: a start-recording command issued while a playback session exists
\* (currentSound is set in the render of the command) is refused: its
\* handler ends at once, no capture handle is allocated and the playback
\* session is left as it was.
C2_StartRefusedDuringPlayback ==
  [][\A t \in TaskIds :
       (tasks[t].kind = "start" /\ tasks[t].sound # 0 /\ tasks'[t] # tasks[t])
         => /\ tasks'[t] = NoTask
            /\ UNCHANGED <<nextRec, capture, recording>>
            /\ UNCHANGED playVars]_vars

\* C3: a capture handle (recording) and a loaded sound handle
\* (currentSound) are never both non-null.
C3_RecordingExcludesPlayback == ~(recording # 0 /\ currentSound # 0)

\* C4: the stop that the timer issues at the ceiling, once the device stop
\* succeeded, saves a note whose duration is the ceiling.
C4_AutoStopSavesCeiling ==
  [][\A t \in TaskIds :
       (/\ tasks[t].kind = "stop" /\ tasks[t].auto
        /\ tasks[t].pc = "stopping" /\ tasks'[t].pc = "saving")
         => Head(voiceNotes').duration = MAX_RECORDING_DURATION]_vars

\* C5: the elapsed-seconds counter of a recording session is at most the
\* ceiling, and every saved note has a duration of at most the ceiling.
C5_DurationWithinCeiling ==
  /\ recordingState.duration <= MAX_RECORDING_DURATION
  /\ \A i \in 1..Len(voiceNotes) :
       voiceNotes[i].duration <= MAX_RECORDING_DURATION

\* C6: a seek that sets the position leaves it inside the file: a target
\* below 0 gives position 0, a target above the duration gives the
\* duration, any other target gives the target.
C6_SeekIsClamped ==
  [][\A t \in TaskIds :
       (/\ tasks[t].kind = "seek" /\ tasks'[t].kind # "seek"
        /\ modal'.playbackPosition # modal.playbackPosition)
         => modal'.playbackPosition = Clamp(tasks[t].target)]_vars

\* C7: when the delete of a note's media file fails (the file is still
\* there once the call is over), the note is removed from the in-memory
\* collection all the same and the collection without it is written.
C7_FileDeleteFailureStillRemoves ==
  [][\A t \in TaskIds :
       (/\ tasks[t].pc = "unlink" /\ tasks'[t].pc # "unlink"
        /\ tasks[t].uri \in files /\ files' = files)
         => /\ tasks[t].id \notin Ids(voiceNotes')
            /\ storageQ' # <<>>
            /\ tasks[t].id \notin Ids(storageQ'[Len(storageQ')].notes)]_vars

\* C8: Save of the edit modal with an empty text is rejected: the
\* collection is unchanged and no storage write is issued.
C8_EmptyRenameRejected ==
  [][(/\ modalVisible /\ selectedNote # <<>> /\ selectedNote[1].text = ""
      /\ ops' = ops + 1)
       => UNCHANGED <<voiceNotes, storageQ>>]_vars

\* C9: when the callback that saw didJustFinish is done, progress is 0,
\* playing is false and the sound is still loaded and still the current
\* sound.
C9_FinishedSoundStaysLoaded ==
  [][\A h \in 1..Len(sounds) :
       (sounds[h].finishing /\ ~sounds'[h].finishing)
         => /\ playbackState'.progress = 0 /\ ~playbackState'.isPlaying
            /\ sounds'[h].loaded
            /\ currentSound' = currentSound]_vars

\* the collection of the last write issued
LastWrite == storageQ'[Len(storageQ')].notes

\* C10: a successful stop puts the new note first in the in-memory
\* collection, the notes that were there follow in their order, and the
\* collection it writes has exactly one entry with the new note's id.
C10_NewNoteFirst ==
  [][\A t \in TaskIds :
       (tasks[t].pc = "stopping" /\ tasks'[t].pc = "saving")
         => /\ voiceNotes' # <<>>
            /\ Head(voiceNotes').id = now'
            /\ Tail(voiceNotes') = voiceNotes
            /\ storageQ' # <<>>
            /\ Cardinality({i \in 1..Len(LastWrite) : LastWrite[i].id = now'}) = 1]_vars

\* C11: the duration a stop saves is the elapsed-seconds counter at the
\* moment the stop was requested, for a stop by the user and for the stop
\* the timer issues: the handler takes the counter of that moment, and the
\* note it builds carries what the handler took.
C11_DurationIsElapsedAtStop ==
  [][\A t \in TaskIds :
       /\ (tasks[t].kind # "stop" /\ tasks'[t].kind = "stop")
            => tasks'[t].dur = recordingState.duration
       /\ (/\ tasks[t].kind = "stop"
           /\ tasks[t].pc = "stopping" /\ tasks'[t].pc = "saving")
            => Head(voiceNotes').duration = tasks[t].dur]_vars

\* C12: the notes of the collection have pairwise distinct ids, also when
\* two recordings are finalized at the same reading of the clock.
C12_IdsDistinct == Cardinality(Ids(voiceNotes)) = Len(voiceNotes)

\* C13: a start whose microphone permission is not granted ends without
\* allocating a capture handle, and it leaves the recording (null), the
\* recording state (idle, duration 0), the timer (not started) and the
\* note collection, in memory and stored, as they were.
C13_DeniedStartChangesNothing ==
  [][\A t \in TaskIds :
       (/\ tasks[t].kind \in {"start", "p5start"}
        /\ tasks[t].pc = "perm" /\ tasks'[t] = NoTask)
         => UNCHANGED <<recording, recordingState, interval, capture,
                        nextRec, voiceNotes, storage, storageQ>>]_vars

\* a start was refused for its permission, on either screen, with nothing
\* recording before or after: no handle, no recording, idle, no timer
C13_Witness ==
  /\ ops = 1 /\ FreeTasks = TaskIds
  /\ nextRec = 0 /\ capture = {}
  /\ recording = 0 /\ recordingState = IdleRecording /\ interval = NoInterval
  /\ ~loading /\ ~loadingRecording

\* the sound handles the device holds loaded
Loaded == {h \in 1..Len(sounds) : sounds[h].loaded}

\* C14: at most one playback sound handle is loaded at any time, whatever
\* the interleaving of the play requests, and a loaded handle is the one
\* the screen holds as currentSound.
C14_OneLoadedSound == Cardinality(Loaded) <= 1 /\ Loaded \subseteq {currentSound}

\* C15: a status callback of a sound handle that is no longer the current
\* one changes nothing of the playback session: currentSound,
\* currentNoteId, isPlaying and progress stay as they are.
C15_StaleCallbackIgnored ==
  [][\A h \in 1..Len(sounds) :
       (/\ h # currentSound
        /\ \/ sounds'[h].pos # sounds[h].pos
           \/ sounds[h].finishing /\ ~sounds'[h].finishing)
         => UNCHANGED <<currentSound, playbackState>>]_vars

\* C16: when finalizing the capture fails (stopAndUnloadAsync rejects, or
\* the recording has no URI) no note is created: the collection in memory
\* and the stored one, with the writes on their way to it, are what they
\* were, and no file is added.  A failed finalization is a step of a stop
\* that ends the handler, or that leaves the recording's file absent.
C16_FailedStopCreatesNoNote ==
  [][\A t \in TaskIds :
       (/\ tasks[t].kind = "stop" /\ tasks[t].pc = "stopping"
        /\ tasks'[t] # tasks[t]
        /\ tasks'[t] = NoTask \/ tasks[t].rec \notin files')
         => UNCHANGED <<voiceNotes, storage, storageQ, files>>]_vars

\* a stop failed for want of a URI while another stop of the same
\* recording waits: the recording is released and has no file, the
\* handler is over with the state idle again, and no note was made of it
C16_Witness ==
  /\ recording = 0 /\ recordingState = IdleRecording
  /\ \E t \in TaskIds :
       /\ tasks[t].kind = "stop" /\ tasks[t].pc = "stopping"
       /\ tasks[t].rec \notin capture \cup files
       /\ \A i \in 1..Len(voiceNotes) : voiceNotes[i].uri # tasks[t].rec

\* C17: while the recording is paused the elapsed-seconds counter does not
\* change; during a recording it changes only by one, on a tick, while
\* not paused; and a pause leaves the counter at the value it had when
\* the pause was requested, which a resume then keeps.
C17_PauseFreezesCounter ==
  [][/\ (/\ recordingState.isRecording /\ recordingState'.isRecording
         /\ recordingState'.duration # recordingState.duration)
          => /\ ~recordingState.isPaused
             /\ recordingState'.duration = recordingState.duration + 1
     /\ \A t \in TaskIds :
          (/\ tasks[t].kind = "p5pause" /\ tasks'[t] = NoTask
           /\ recordingState'.isPaused # recordingState.isPaused)
            => recordingState'.duration = tasks[t].dur]_vars

\* C18: deleting the note that playback targets closes the playback
\* first, so the playback session never refers to a note that is not in
\* the collection.
C18_PlaybackTargetExists ==
  playbackState.currentNoteId # -1 => playbackState.currentNoteId \in Ids(voiceNotes)

\* C19: a load for playback that fails leaves no broken session:
\* currentSound is null, currentNoteId is null and isPlaying is false,
\* also when the session there was has been unloaded by the load that
\* failed (the session of another load that succeeded meanwhile is not
\* in question).
C19_FailedLoadLeavesNoSession ==
  [][\A t \in TaskIds :
       (/\ tasks[t].kind = "play" /\ tasks[t].pc = "create"
        /\ tasks'[t] = NoTask /\ Len(sounds') = Len(sounds)
        /\ currentSound = tasks[t].sound)
         => /\ currentSound' = 0
            /\ playbackState'.currentNoteId = -1
            /\ ~playbackState'.isPlaying]_vars

\* C20: the operations that change the collection behave as if they ran
\* one after the other, so that no completed change is lost: a delete
\* that was suspended on its file removes its note from the collection as
\* it is when the delete goes on, and keeps everything else of it, in
\* memory and in what it writes.
C20_NoLostMutation ==
  [][\A t \in TaskIds :
       (/\ tasks[t].kind = "delete"
        /\ tasks[t].pc = "unlink" /\ tasks'[t].pc = "saving")
         => /\ voiceNotes' = FilterOut(voiceNotes, tasks[t].id)
            /\ storageQ'[Len(storageQ')].notes = voiceNotes']_vars

\* the persisted collection (none is the empty one)
Persisted == IF storage.present THEN storage.notes ELSE <<>>

\* a write of the collection is on its way to the storage
WritePending == \E i \in 1..Len(storageQ) : storageQ[i].op = "set"

\* the notes in memory that the persisted collection does not hold
Unsaved == {i \in 1..Len(voiceNotes) :
              \A j \in 1..Len(Persisted) : Persisted[j] # voiceNotes[i]}

\* C21: the persisted collection is always a complete collection that was
\* in memory: every write issued carries the collection set in memory in
\* the same step and the storage takes it whole.  A crash between a
\* change in memory and its write loses that one change at most: while a
\* write is on its way, at most one note in memory is missing from the
\* persisted collection.
C21_CrashLosesAtMostOne ==
  /\ [][/\ (Len(storageQ') > Len(storageQ))
             => storageQ'[Len(storageQ')].notes = voiceNotes'
        /\ (storage'.notes # storage.notes)
             => SaveDone /\ storage'.notes = Head(storageQ).notes]_vars
  /\ [](WritePending => Cardinality(Unsaved) <= 1)

\* C22: every note of the collection in memory refers to a media file
\* that exists: a file is deleted only by deleteNote of its note, and a
\* note whose file was deleted does not come back into the collection.
C22_NotesHaveFiles ==
  \A i \in 1..Len(voiceNotes) : voiceNotes[i].uri \in files

\* C23: when the storage write of a just-recorded note fails, the note
\* stays in the collection in memory, first in the list, the failure is
\* reported (the rejection saveNotes catches for its alert) and the
\* recording session ends idle.
C23_FailedWriteKeepsNote ==
  [][\A t \in TaskIds :
       (/\ tasks[t].kind = "stop" /\ tasks[t].pc = "saving"
        /\ tasks'[t] = NoTask /\ storage' = [storage EXCEPT !.rejected = TRUE])
         => /\ voiceNotes' # <<>>
            /\ Head(voiceNotes') = Head(Head(storageQ).notes)
            /\ storage'.rejected
            /\ recording' = 0 /\ recordingState' = IdleRecording
            /\ interval' = NoInterval]_vars

\* C24: closing the playback session of the note modal (the modal becomes
\* invisible) unloads the sound that was loaded for it: while the modal is
\* closed no sound it created is loaded.
C24_ClosedModalHoldsNoSound == ~modal.visible => Loaded = {}

\* C25: when a stop resolves, saved or failed, the per-second timer is
\* cancelled and the elapsed-seconds counter is 0; while no recording is
\* in progress there is no timer and the counter stays 0, and a tick (the
\* counter going up, or the timer issuing a stop) happens only during a
\* recording.
C25_ResolvedSessionHasNoTimer ==
  /\ [](~recordingState.isRecording
          => recordingState.duration = 0 /\ interval = NoInterval)
  /\ [][/\ \A t \in TaskIds :
             (tasks[t].kind = "stop" /\ tasks'[t] = NoTask)
               => /\ recordingState' = IdleRecording
                  /\ interval' = NoInterval
        /\ (\/ recordingState'.duration > recordingState.duration
            \/ \E t \in TaskIds : tasks[t].kind # "stop" /\ tasks'[t].auto)
             => recordingState.isRecording /\ interval.on]_vars

\* a recording ran for a second, was stopped by the user and saved: the
\* session has resolved, the counter is 0 and there is no timer
C25_Witness ==
  /\ FreeTasks = TaskIds
  /\ recordingState = IdleRecording /\ interval = NoInterval
  /\ \E i \in 1..Len(voiceNotes) :
       voiceNotes[i].uri = 1 /\ voiceNotes[i].duration = 1

\* the notes of the collection made from capture handle r
NotesOf(r) == {i \in 1..Len(voiceNotes) : voiceNotes[i].uri = r}

\* the handlers that have invoked recording.stopAndUnloadAsync() on
\* capture handle r and have not ended
StopsOf(r) == {t \in TaskIds : tasks[t].kind = "stop" /\ tasks[t].rec = r}

\* C26: a recording session produces at most one note, whatever the ticks
\* at the ceiling and the stop requests issued before the first stop has
\* completed: the collection never holds two notes of one capture handle,
\* and the device stop of a handle is invoked once, so no two stops of one
\* handle are ever under way.
C26_OneNotePerSession ==
  \A r \in 1..nextRec :
    Cardinality(NotesOf(r)) <= 1 /\ Cardinality(StopsOf(r)) <= 1

\* C27: the note a stop creates is put in front of the collection as it
\* is at the time of the stop, for a stop by the user and for the stop at
\* the ceiling: the renames and deletes completed during the recording
\* stay in the collection in memory and in the one the stop writes.
C27_StopKeepsEarlierChanges ==
  [][\A t \in TaskIds :
       (/\ tasks[t].kind = "stop"
        /\ tasks[t].pc = "stopping" /\ tasks'[t].pc = "saving")
         => /\ Tail(voiceNotes') = voiceNotes
            /\ storageQ'[Len(storageQ')].notes = voiceNotes']_vars

\* the capture handles in being: those the device holds prepared, the one
\* the screen holds as recording, and those a start has made with
\* new Audio.Recording() and is about to prepare
Allocated ==
  capture \cup ({recording} \ {0})
          \cup {tasks[t].rec : t \in {u \in TaskIds : tasks[u].kind = "start"
                                                      /\ tasks[u].pc = "begin"}}

\* C28: at most one capture handle is allocated at any time, also when a
\* second start is issued while the first awaits its permission or the
\* preparation of the device; and every handle the device holds is one
\* that will be stopped and unloaded: the screen holds it as recording, or
\* a handler under way holds it.
C28_OneCaptureHandle ==
  /\ Cardinality(Allocated) <= 1
  /\ \A r \in capture :
       r = recording \/ \E t \in TaskIds : tasks[t].rec = r

\* C29: when the records screen unmounts, its cleanup releases the
\* device: the capture handle of a recording in progress is stopped and
\* unloaded, and the sound that is loaded is unloaded.
C29_UnmountReleasesDevice ==
  [][(screen = "Records" /\ screen' = "Unmounted")
       => /\ recording \notin capture'
          /\ currentSound # 0 => ~sounds'[currentSound].loaded]_vars

\* C30: changing the volume of a loaded playback session changes the
\* volume only: the sound handle, the position, the duration and the
\* playing flag stay as they are, on the device and in the modal, and no
\* load of a new sound handle is started.
C30_VolumeChangesOnlyVolume ==
  [][(/\ modal'.volume # modal.volume
      /\ modal.sound # 0 /\ sounds[modal.sound].loaded)
       => /\ sounds' = sounds
          /\ modal' = [modal EXCEPT !.volume = modal'.volume]
          /\ \A t \in TaskIds : tasks'[t].kind = "load" => tasks[t].kind = "load"]_vars

====
